---- MODULE Spec2Model ----
(***************************************************************************)
(* Model of the printable contact sheet generator (src/unnamed/part_000):  *)
(* main() scans a directory for JPEG files, asks four metadata questions,  *)
(* builds the composite list of createContactSheet (one thumbnail per      *)
(* image, then the footer overlay and the separator rule) and saves the    *)
(* sheet into the scanned directory.                                       *)
(*                                                                         *)
(* A run is deterministic once its inputs are fixed; the inputs are the    *)
(* directory listing (with what each file holds) and the four lines typed  *)
(* at the prompts.  Init draws them from bounded families; the only        *)
(* nondeterminism left in a run is whether the final write succeeds.       *)
(* Text is modelled as a sequence of one-character strings.                *)
(***************************************************************************)
EXTENDS Integers, Sequences, FiniteSets, TLC

VARIABLES
  pc,               \* position of main(): see PcValues
  dir,              \* the directory listing, in readdir order
  stdin,            \* the lines the user types at the four prompts, in order
  images,           \* main's `images`: the result of getImages
  metadata,         \* main's `metadata` record (once the prompts are done)
  i,                \* loop index of createContactSheet
  compositeImages,  \* createContactSheet's composite list
  console,          \* what was printed so far (log, warn, error, prompts)
  exitCode,         \* -1 while running, then the process exit code
  sheet             \* the saved output image, NoSheet until written

vars == <<pc, dir, stdin, images, metadata, i, compositeImages, console,
          exitCode, sheet>>

----------------------------------------------------------------------------
(* Bounds of the model *)

MaxFiles == 38     \* longest directory listing of plain photos
MaxMixed == 2      \* longest listing drawn from every kind of entry
MaxDim   == 12     \* pixel sizes 1..MaxDim (and two real sizes) for one photo
MaxLen   == 4      \* longest free-text answer over Alphabet
MaxRuns  == 2      \* runs of the program on one directory

----------------------------------------------------------------------------
(* Configuration constants, part_000 lines 12-31 *)

DPI == 300
SIZE_MM == 120
GRID_ROWS == 6
GRID_COLS == 6
MARGIN == 12
CELL_PADDING == 4
CELL_HEIGHT == 175
CELL_WIDTH == 228

\* Math.round(x) for a non-negative rational x = num / den: floor(x + 1/2).
RoundDiv(num, den) == (2 * num + den) \div (2 * den)

\* SIZE_INCHES = SIZE_MM / 25.4; IMAGE_SIZE = Math.round(SIZE_INCHES * DPI).
\* 25.4 = 254 / 10, so SIZE_MM / 25.4 * DPI = (SIZE_MM * DPI * 10) / 254.
IMAGE_SIZE == RoundDiv(SIZE_MM * DPI * 10, 254)

MAX_IMAGES == GRID_ROWS * GRID_COLS

GRID_HEIGHT == (GRID_ROWS * CELL_HEIGHT) + ((GRID_ROWS - 1) * CELL_PADDING)

----------------------------------------------------------------------------
(* Text *)

\* JavaScript null.  Typed text is a sequence of one-character strings, so
\* this value is different from every text, the empty one included.
NULL == <<"null">>

WhiteSpace == {" ", "\t"}

RECURSIVE TrimStart(_)
TrimStart(s) ==
  IF s = <<>> THEN <<>>
  ELSE IF Head(s) \in WhiteSpace THEN TrimStart(Tail(s)) ELSE s

RECURSIVE TrimEnd(_)
TrimEnd(s) ==
  IF s = <<>> THEN <<>>
  ELSE IF s[Len(s)] \in WhiteSpace THEN TrimEnd(SubSeq(s, 1, Len(s) - 1)) ELSE s

\* String.prototype.trim
Trim(s) == TrimEnd(TrimStart(s))

\* JavaScript truthiness of a value that is a string or null.
Truthy(v) == v # NULL /\ v # <<>>

\* question(): resolve(answer.trim() || null)
question(answer) == IF Truthy(Trim(answer)) THEN Trim(answer) ELSE NULL

\* text.replace(/ch/g, rep): every occurrence of ch in text, left to right,
\* is replaced by rep; the replacement text is not scanned again.
RECURSIVE ReplaceAll(_, _, _)
ReplaceAll(text, ch, rep) ==
  IF text = <<>> THEN <<>>
  ELSE (IF Head(text) = ch THEN rep ELSE <<Head(text)>>)
         \o ReplaceAll(Tail(text), ch, rep)

AMP  == <<"&", "a", "m", "p", ";">>
LT   == <<"&", "l", "t", ";">>
GT   == <<"&", "g", "t", ";">>
QUOT == <<"&", "q", "u", "o", "t", ";">>
APOS == <<"&", "a", "p", "o", "s", ";">>

\* A plausible slip: the ampersand pass runs last and escapes the
\* ampersands the other four passes have just written.
escapeXmlAmpLast(text) ==
  ReplaceAll(
    ReplaceAll(
      ReplaceAll(
        ReplaceAll(
          ReplaceAll(text, "<", LT),
          ">", GT),
        "\"", QUOT),
      "'", APOS),
    "&", AMP)

\* escapeXml(): five chained replace passes, the ampersand first.
escapeXml(text) ==
  ReplaceAll(
    ReplaceAll(
      ReplaceAll(
        ReplaceAll(
          ReplaceAll(text, "&", AMP),
          "<", LT),
        ">", GT),
      "\"", QUOT),
    "'", APOS)

----------------------------------------------------------------------------
(* Footer overlay *)

RollLabel  == <<"R", "o", "l", "l", ":">>
LabLabel   == <<"S", "c", "a", "n", "e", "d", " ", "b", "y", ":">>
DateLabel  == <<"D", "a", "t", "e", ":">>
NotesLabel == <<"N", "o", "t", "e", "s", ":">>

\* One <text> element of the footer SVG.
TextElement(x, y, size, weight, fill, text) ==
  [x |-> x, y |-> y, size |-> size, weight |-> weight, fill |-> fill,
   text |-> text]

\* The label element and the value element of one footer line.
FooterLine(label, value, y, valueSize, valueWeight, labelWeight, valueFill) ==
  << TextElement(0, y, 58, labelWeight, "#666", label),
     TextElement(320, y, valueSize, valueWeight, valueFill, escapeXml(value)) >>

\* A plausible slip: the baseline advances whether or not the line is drawn.
createFooterSVGGaps(serialNumber, laboratory, date, notes, width, height) ==
  [width |-> width, height |-> height,
   parts |->
     (IF Truthy(serialNumber)
        THEN FooterLine(RollLabel, serialNumber, 60, 84, "bold", "normal", "#000")
        ELSE <<>>)
     \o (IF Truthy(laboratory)
        THEN FooterLine(LabLabel, laboratory, 128, 58, "300", "400", "#333")
        ELSE <<>>)
     \o (IF Truthy(date)
        THEN FooterLine(DateLabel, date, 191, 58, "300", "400", "#333")
        ELSE <<>>)
     \o (IF Truthy(notes)
        THEN FooterLine(NotesLabel, notes, 254, 58, "300", "400", "#333")
        ELSE <<>>)]

\* createFooterSVG(): yPos starts at 60 and advances only past a line that
\* is drawn (68 after the roll line, 63 after the others).
createFooterSVG(serialNumber, laboratory, date, notes, width, height) ==
  LET y1 == 60
      y2 == IF Truthy(serialNumber) THEN y1 + 68 ELSE y1
      y3 == IF Truthy(laboratory) THEN y2 + 63 ELSE y2
      y4 == IF Truthy(date) THEN y3 + 63 ELSE y3
  IN [width |-> width, height |-> height,
      parts |->
        (IF Truthy(serialNumber)
           THEN FooterLine(RollLabel, serialNumber, y1, 84, "bold", "normal", "#000")
           ELSE <<>>)
        \o (IF Truthy(laboratory)
           THEN FooterLine(LabLabel, laboratory, y2, 58, "300", "400", "#333")
           ELSE <<>>)
        \o (IF Truthy(date)
           THEN FooterLine(DateLabel, date, y3, 58, "300", "400", "#333")
           ELSE <<>>)
        \o (IF Truthy(notes)
           THEN FooterLine(NotesLabel, notes, y4, 58, "300", "400", "#333")
           ELSE <<>>)]

----------------------------------------------------------------------------
(* Directory entries and getImages *)

\* A directory entry.  name is what readdir returns, kept split at its last
\* dot: base (a number, unique in the directory) and ext, the text
\* path.extname gives.  A file holds an image of width x height pixels;
\* fault says where sharp fails on it: "ok" (nowhere), "metadata" (the header
\* cannot be read) or "resize" (the pixel data cannot be decoded).
Entry(base, ext, isDir, fault, width, height) ==
  [name |-> [base |-> base, ext |-> ext], isDir |-> isDir, fault |-> fault,
   width |-> width, height |-> height]

\* path.extname(file)
extname(file) == file.ext

imageExtensions == {".jpg", ".jpeg", ".JPG", ".JPEG"}

\* First n elements of a sequence: Array.prototype.slice(0, n).
Slice(s, n) == SubSeq(s, 1, IF Len(s) < n THEN Len(s) ELSE n)


\* A plausible slip: the list is not cut to MAX_IMAGES.
getImagesNoSlice(d) ==
  LET files == [k \in 1..Len(d) |-> d[k].name]
      imageFiles == SelectSeq(files, LAMBDA file: extname(file) \in imageExtensions)
  IN [k \in 1..Len(imageFiles) |->
        [filename |-> imageFiles[k], fullPath |-> imageFiles[k]]]

\* getImages(): the names readdir lists, filtered on their extension, cut to
\* the first MAX_IMAGES, in listing order.  fullPath stands for
\* path.join(directory, file): it names the same entry.
getImages(d) ==
  LET files == [k \in 1..Len(d) |-> d[k].name]
      imageFiles == SelectSeq(files, LAMBDA file: extname(file) \in imageExtensions)
      kept == Slice(imageFiles, MAX_IMAGES)
  IN [k \in 1..Len(kept) |-> [filename |-> kept[k], fullPath |-> kept[k]]]

\* The directory entry a path names.
FileAt(d, path) == CHOOSE e \in {d[k] : k \in 1..Len(d)} : e.name = path

----------------------------------------------------------------------------
(* Thumbnails *)

\* A plausible slip: the column is not wrapped at GRID_COLS.
CellLeftNoWrap(idx) == MARGIN + idx * (CELL_WIDTH + CELL_PADDING)

\* x of the cell of image idx (0-based): col = i % GRID_COLS.
CellLeft(idx) == MARGIN + (idx % GRID_COLS) * (CELL_WIDTH + CELL_PADDING)

\* A plausible slip: the row is the index modulo the grid, not divided by it.
CellTopMod(idx) == MARGIN + (idx % GRID_ROWS) * (CELL_HEIGHT + CELL_PADDING)

\* y of the cell of image idx (0-based): row = Math.floor(i / GRID_COLS).
CellTop(idx) == MARGIN + (idx \div GRID_COLS) * (CELL_HEIGHT + CELL_PADDING)

\* A plausible slip: >= instead of >, so that a square image is rotated.
ShouldRotateOrEqual(width, height) == height >= width

\* metadata.height > metadata.width
ShouldRotate(width, height) == height > width

\* sharp's rotate(90): the output is height x width.
Rotate90(img) == [width |-> img.height, height |-> img.width]

\* A plausible slip: fit 'fill', which stretches each axis to the cell.
ContainFitFill(w, h, tw, th) == [width |-> tw, height |-> th]

\* sharp's resize(tw, th, {fit: 'contain'}) of a w x h image: both axes are
\* scaled by the smaller of tw/w and th/h (the image is enlarged when it is
\* smaller than the box), each scaled length is rounded to a whole pixel and
\* is at least 1.  The result is the size of the image content; the rest of
\* the tw x th output is background.
ContainFit(w, h, tw, th) ==
  IF w * th >= h * tw
    THEN [width |-> tw,
          height |-> IF RoundDiv(h * tw, w) < 1 THEN 1 ELSE RoundDiv(h * tw, w)]
    ELSE [width |-> IF RoundDiv(w * th, h) < 1 THEN 1 ELSE RoundDiv(w * th, h),
          height |-> th]

\* Whether sharp throws while the entry is read, rotated and resized.  A
\* directory is no image file: reading its metadata fails.
SharpFails(e) == e.isDir \/ e.fault # "ok"

\* The thumbnail buffer made from entry e: thumbWidth x thumbHeight pixels,
\* the content (of the size ContainFit gives) on a white background.
\* resized is the image as it enters resize(), after the optional rotation.
Thumbnail(e) ==
  LET rotated == ShouldRotate(e.width, e.height)
      src == [width |-> e.width, height |-> e.height]
      resized == IF rotated THEN Rotate90(src) ELSE src
      content == ContainFit(resized.width, resized.height, CELL_WIDTH, CELL_HEIGHT)
  IN [kind |-> "thumbnail", source |-> e.name,
      width |-> CELL_WIDTH, height |-> CELL_HEIGHT,
      rotated |-> rotated, resized |-> resized, content |-> content]

\* A plausible slip: the footer is drawn only when there is a roll number.
HasMetadataSerialOnly(m) == Truthy(m.serialNumber)

\* metadata.serialNumber || metadata.laboratory || metadata.date || metadata.notes
HasMetadata(m) ==
  Truthy(m.serialNumber) \/ Truthy(m.laboratory) \/ Truthy(m.date) \/ Truthy(m.notes)

----------------------------------------------------------------------------
(* Inputs of a run *)

\* A scanned photo: a sound landscape file.
Plain(k) == Entry(k, ".jpg", FALSE, "ok", 3000, 2000)

Exts == {".jpg", ".jpeg", ".JPG", ".JPEG", ".png", ""}

\* Every kind of entry, for position k: a sound file of each extension, a
\* subdirectory of each extension, and a .jpg file of each fault and shape.
Kinds(k) ==
  {Entry(k, e, FALSE, "ok", 3000, 2000) : e \in Exts}
  \cup {Entry(k, e, TRUE, "ok", 0, 0) : e \in Exts}
  \cup {Entry(k, ".jpg", FALSE, f, wh[1], wh[2]) :
          f \in {"ok", "metadata", "resize"},
          wh \in {<<3000, 2000>>, <<2000, 3000>>}}

\* Listings of 0..MaxFiles plain photos.
PlainDirs == {[k \in 1..n |-> Plain(k)] : n \in 0..MaxFiles}

\* Listings of plain photos in which one file cannot be read.
OneBadDirs ==
  UNION {{[k \in 1..n |-> IF k = j
                            THEN Entry(k, ".jpg", FALSE, "metadata", 3000, 2000)
                            ELSE Plain(k)] : j \in 1..n} : n \in 1..MaxFiles}

\* Every listing of at most MaxMixed entries of any kind.
MixedDirs ==
  UNION {{d \in [1..n -> UNION {Kinds(k) : k \in 1..n}] :
            \A k \in 1..n : d[k].name.base = k} : n \in 0..MaxMixed}

DimValues == (1..MaxDim) \cup {2000, 3000}

\* One sound photo of every size.
DimDirs == {<<Entry(1, ".jpg", FALSE, "ok", w, h)>> : w \in DimValues, h \in DimValues}

Answers == {<<>>, <<" ", "\t">>, <<"A">>, <<" ", "<", "&">>}

Alphabet == {"&", "<", ">", "\"", "'", "l", "t", ";"}

FreeText == UNION {[1..n -> Alphabet] : n \in 0..MaxLen}

\* The four answers of the scenario of the specification, and four skips.
PlainStdins ==
  { << <<"C", "S", "-", "0", "0", "1">>, <<>>, <<"2", "0", "2", "4">>, <<>> >>,
    << <<>>, <<>>, <<>>, <<>> >> }

\* The pairs (directory, typed lines) a run starts from.
Inputs ==
  ((PlainDirs \cup OneBadDirs \cup MixedDirs \cup DimDirs) \X PlainStdins)
  \cup ({<<Plain(1)>>} \X [1..4 -> Answers])
  \cup ({<<Plain(1)>>} \X {<< <<>>, <<>>, <<>>, t >> : t \in FreeText})

NoSheet == [width |-> 0, height |-> 0, layers |-> <<>>]

NoMetadata ==
  [serialNumber |-> NULL, laboratory |-> NULL, date |-> NULL, notes |-> NULL]

Say(msg, file) == [msg |-> msg, file |-> file]

\* main() after its argument and directory checks have passed.
Init ==
  /\ \E in \in Inputs : dir = in[1] /\ stdin = in[2]
  /\ pc = "getImages"
  /\ images = <<>>
  /\ metadata = NoMetadata
  /\ i = 0
  /\ compositeImages = <<>>
  /\ console = <<>>
  /\ exitCode = -1
  /\ sheet = NoSheet

----------------------------------------------------------------------------
(* main() *)

\* const images = await getImages(directory)
GetImages ==
  /\ pc = "getImages"
  /\ images' = getImages(dir)
  /\ console' = Append(console, Say("scanning", 0))
  /\ pc' = "checkImages"
  /\ UNCHANGED <<dir, stdin, metadata, i, compositeImages, exitCode, sheet>>

\* A plausible slip: the empty list is reported but the run goes on.
NoImagesGoesOn ==
  /\ pc = "checkImages"
  /\ Len(images) = 0
  /\ console' = Append(console, Say("error: no images", 0))
  /\ pc' = "askSerial"
  /\ UNCHANGED <<dir, stdin, images, metadata, i, compositeImages, exitCode, sheet>>

\* if (images.length === 0) { console.error(...); process.exit(1); }
NoImages ==
  /\ pc = "checkImages"
  /\ Len(images) = 0
  /\ console' = Append(console, Say("error: no images", 0))
  /\ exitCode' = 1
  /\ pc' = "exited"
  /\ UNCHANGED <<dir, stdin, images, metadata, i, compositeImages, sheet>>

\* The "Found n image(s)" message and the test images.length > MAX_IMAGES.
FoundImages ==
  /\ pc = "checkImages"
  /\ Len(images) # 0
  /\ console' =
       IF Len(images) > MAX_IMAGES
         THEN console \o <<Say("found", 0), Say("warning: only the first", 0)>>
         ELSE Append(console, Say("found", 0))
  /\ pc' = "askSerial"
  /\ UNCHANGED <<dir, stdin, images, metadata, i, compositeImages, exitCode, sheet>>

\* const <field> = await question(rl, ...): the prompt is printed, the n-th
\* line is read and the trimmed answer (or null) is kept.
Ask(at, field, n, next) ==
  /\ pc = at
  /\ n <= Len(stdin)
  /\ console' = Append(console, Say("prompt", 0))
  /\ metadata' = [metadata EXCEPT ![field] = question(stdin[n])]
  /\ pc' = next
  /\ UNCHANGED <<dir, stdin, images, i, compositeImages, exitCode, sheet>>

AskSerial == Ask("askSerial", "serialNumber", 1, "askLaboratory")
AskLaboratory == Ask("askLaboratory", "laboratory", 2, "askDate")
AskDate == Ask("askDate", "date", 3, "askNotes")
AskNotes == Ask("askNotes", "notes", 4, "create")

----------------------------------------------------------------------------
(* createContactSheet(images, metadata) *)

\* Entry of the function: the message, the empty composite list, i = 0.
BeginSheet ==
  /\ pc = "create"
  /\ console' = Append(console, Say("creating", 0))
  /\ compositeImages' = <<>>
  /\ i' = 0
  /\ pc' = "loop"
  /\ UNCHANGED <<dir, stdin, images, metadata, exitCode, sheet>>

\* One iteration whose try block completes: the thumbnail is pushed with the
\* origin of cell i.
ProcessImage ==
  /\ pc = "loop"
  /\ i < Len(images)
  /\ ~SharpFails(FileAt(dir, images[i + 1].fullPath))
  /\ compositeImages' =
       Append(compositeImages,
              [input |-> Thumbnail(FileAt(dir, images[i + 1].fullPath)),
               top |-> CellTop(i), left |-> CellLeft(i)])
  /\ i' = i + 1
  /\ UNCHANGED <<pc, dir, stdin, images, metadata, console, exitCode, sheet>>

\* A plausible slip: no try/catch, the error reaches main().catch.
SkipImageAborts ==
  /\ pc = "loop"
  /\ i < Len(images)
  /\ SharpFails(FileAt(dir, images[i + 1].fullPath))
  /\ console' = Append(console, Say("error", images[i + 1].filename.base))
  /\ exitCode' = 1
  /\ pc' = "exited"
  /\ UNCHANGED <<dir, stdin, images, metadata, i, compositeImages, sheet>>

\* One iteration whose try block throws: the catch prints a warning that
\* names the file, nothing is pushed, the loop goes on.
SkipImage ==
  /\ pc = "loop"
  /\ i < Len(images)
  /\ SharpFails(FileAt(dir, images[i + 1].fullPath))
  /\ console' = Append(console, Say("warning: error processing", images[i + 1].filename.base))
  /\ i' = i + 1
  /\ UNCHANGED <<pc, dir, stdin, images, metadata, compositeImages, exitCode, sheet>>

footerStartY == MARGIN + GRID_HEIGHT

footerHeight == IMAGE_SIZE - footerStartY - MARGIN

footerY == footerStartY + 20

\* The composite entry of the footer text overlay.
FooterLayer(m) ==
  [input |-> [kind |-> "footer",
              svg |-> createFooterSVG(m.serialNumber, m.laboratory, m.date, m.notes,
                                      IMAGE_SIZE - MARGIN * 2, footerHeight),
              width |-> IMAGE_SIZE - MARGIN * 2, height |-> footerHeight],
   top |-> footerY, left |-> MARGIN]

\* The composite entry of the decorative line above the footer.
LineLayer ==
  [input |-> [kind |-> "line", width |-> IMAGE_SIZE - MARGIN * 2, height |-> 1],
   top |-> footerStartY + 8, left |-> MARGIN]

\* After the loop: the footer overlay and the line are pushed when there is
\* metadata, and the function returns canvas.composite(compositeImages).
AddFooter ==
  /\ pc = "loop"
  /\ i >= Len(images)
  /\ compositeImages' =
       compositeImages
         \o (IF HasMetadata(metadata) THEN <<FooterLayer(metadata)>> ELSE <<>>)
         \o (IF HasMetadata(metadata) THEN <<LineLayer>> ELSE <<>>)
  /\ pc' = "save"
  /\ UNCHANGED <<dir, stdin, images, metadata, i, console, exitCode, sheet>>

----------------------------------------------------------------------------
(* Saving *)

\* Number of contact sheets earlier saves have left in a listing (their
\* base is 0 or less; the photos have a base of 1 or more).
SheetCount(d) == Cardinality({k \in 1..Len(d) : d[k].name.base <= 0})

\* The entry toFile creates: contact-sheet-<Date.now()>.jpg in the scanned
\* directory.  The clock gives every run a new name: base 0 stands for the
\* first sheet's stem, -1 for the second's, and so on.
OutputEntry == Entry(0 - SheetCount(dir), ".jpg", FALSE, "ok", IMAGE_SIZE, IMAGE_SIZE)

\* A sequence with an element put after its first p elements.
InsertAt(s, p, e) == SubSeq(s, 1, p) \o <<e>> \o SubSeq(s, p + 1, Len(s))

\* await contactSheet.jpeg(...).toFile(outputPath), then the success messages.
\* Where the new file shows up in a later readdir is up to the file system.
Save ==
  /\ pc = "save"
  /\ sheet' = [width |-> IMAGE_SIZE, height |-> IMAGE_SIZE, layers |-> compositeImages]
  /\ \E p \in 0..Len(dir) : dir' = InsertAt(dir, p, OutputEntry)
  /\ console' = Append(console, Say("created", 0))
  /\ exitCode' = 0
  /\ pc' = "done"
  /\ UNCHANGED <<stdin, images, metadata, i, compositeImages>>

\* toFile rejects (the directory is not writable, the disk is full):
\* main().catch prints the error and exits with 1.
SaveFails ==
  /\ pc = "save"
  /\ console' = Append(console, Say("error", 0))
  /\ exitCode' = 1
  /\ pc' = "exited"
  /\ UNCHANGED <<dir, stdin, images, metadata, i, compositeImages, sheet>>

Next ==
  \/ GetImages
  \/ NoImages
  \/ FoundImages
  \/ AskSerial
  \/ AskLaboratory
  \/ AskDate
  \/ AskNotes
  \/ BeginSheet
  \/ ProcessImage
  \/ SkipImage
  \/ AddFooter
  \/ Save
  \/ SaveFails

Spec == Init /\ [][Next]_vars

----------------------------------------------------------------------------
(* Successive runs on one directory *)

\* Listings the program is run on more than once: every small listing, and
\* the listings of MAX_IMAGES - 1 and MAX_IMAGES plain photos.
RunDirs ==
  MixedDirs \cup {[k \in 1..n |-> Plain(k)] : n \in {MAX_IMAGES - 1, MAX_IMAGES}}

InitRuns ==
  /\ dir \in RunDirs
  /\ stdin \in PlainStdins
  /\ pc = "getImages"
  /\ images = <<>>
  /\ metadata = NoMetadata
  /\ i = 0
  /\ compositeImages = <<>>
  /\ console = <<>>
  /\ exitCode = -1
  /\ sheet = NoSheet

\* The user starts the program again on the same directory, which now
\* holds the sheets of the earlier runs, and types the same answers: a new
\* process, with main() at its start.
Rerun ==
  /\ pc = "done"
  /\ SheetCount(dir) < MaxRuns
  /\ pc' = "getImages"
  /\ images' = <<>>
  /\ metadata' = NoMetadata
  /\ i' = 0
  /\ compositeImages' = <<>>
  /\ console' = <<>>
  /\ exitCode' = -1
  /\ sheet' = NoSheet
  /\ UNCHANGED <<dir, stdin>>

NextRuns ==
  \/ Next
  \/ Rerun

SpecRuns == InitRuns /\ [][NextRuns]_vars

----------------------------------------------------------------------------
(* Vocabulary of the properties *)

\* The run is past createContactSheet: the composite list is complete.
Composed == pc \in {"save", "done"}

\* The listing as the run found it: without the sheet this run has saved.
InputDir ==
  IF pc = "done"
    THEN LET saved == 1 - SheetCount(dir)
         IN SelectSeq(dir, LAMBDA e : e.name.base # saved)
    ELSE dir

\* Names of the entries of the listing with a JPEG extension, in order.
Qualifying ==
  SelectSeq([k \in 1..Len(InputDir) |-> InputDir[k].name],
            LAMBDA f : f.ext \in {".jpg", ".jpeg", ".JPG", ".JPEG"})

\* The entry of the directory called name (names are unique in a directory).
EntryNamed(name) == CHOOSE e \in {dir[k] : k \in 1..Len(dir)} : e.name = name

\* Whether processing of the entry called name fails.
Unreadable(name) == EntryNamed(name).isDir \/ EntryNamed(name).fault # "ok"

\* The set of the elements of a sequence.
Range(s) == {s[k] : k \in 1..Len(s)}

ThumbLayers == SelectSeq(compositeImages, LAMBDA l : l.input.kind = "thumbnail")
FooterLayers == SelectSeq(compositeImages, LAMBDA l : l.input.kind = "footer")
LineLayers == SelectSeq(compositeImages, LAMBDA l : l.input.kind = "line")

\* Positions (1-based) of the thumbnails made from the entry called name.
ThumbsOf(name) == {k \in 1..Len(ThumbLayers) : ThumbLayers[k].input.source = name}

Warnings == SelectSeq(console, LAMBDA c : c.msg = "warning: error processing")

Min(a, b) == IF a < b THEN a ELSE b

----------------------------------------------------------------------------
(* C1 *)

\* C1: every thumbnail in the composite list comes from one of the first 36
\* qualifying images of the listing, the image at input index n (0-based),
\* and sits at (12 + (n mod 6) * (228 + 4), 12 + (n div 6) * (175 + 4)); no
\* thumbnail is composited for an index >= 36; once the list is complete
\* and every one of those images is readable, the thumbnails are exactly
\* those of indexes 0..min(N, 36) - 1, in input order.
C1_RowMajorCells ==
  LET q == Qualifying
      t == ThumbLayers
      N == Min(Len(q), 36)
  IN /\ \A k \in 1..Len(t) :
          \E n \in 0..35 :
            /\ n < Len(q)
            /\ t[k].input.source = q[n + 1]
            /\ t[k].left = 12 + (n % 6) * (228 + 4)
            /\ t[k].top = 12 + (n \div 6) * (175 + 4)
     /\ (Composed /\ \A n \in 1..N : ~Unreadable(q[n]))
          => /\ Len(t) = N
             /\ \A n \in 1..N : t[n].input.source = q[n]

\* A run on more than 36 photos has finished with 36 thumbnails, the last
\* of them in the bottom right cell.
C1_Witness ==
  /\ pc = "done"
  /\ Len(Qualifying) > 36
  /\ Len(ThumbLayers) = 36
  /\ ThumbLayers[36].left = 1172
  /\ ThumbLayers[36].top = 907
  /\ ThumbLayers[8].left = 244
  /\ ThumbLayers[8].top = 191

----------------------------------------------------------------------------
(* C2 *)

\* C2: when the composite list is complete, an image whose processing failed
\* has no thumbnail and exactly one warning, every other image has exactly
\* one thumbnail, in the cell of its own input index, and every image has
\* been visited; a failing image never ends the run: the process exits with
\* a failure only when there were no images or when the final write failed,
\* and a finished run has written the sheet.
C2_FailedImageLeavesBlankCell ==
  /\ Composed =>
       LET t == ThumbLayers
           w == Warnings
           thumbs(name) == {k \in 1..Len(t) : t[k].input.source = name}
           warned(name) == {k \in 1..Len(w) : w[k].file = name.base}
       IN /\ i = Len(images)
          /\ \A n \in 1..Len(images) :
               IF Unreadable(images[n].filename)
                 THEN /\ thumbs(images[n].filename) = {}
                      /\ Cardinality(warned(images[n].filename)) = 1
                 ELSE /\ Cardinality(thumbs(images[n].filename)) = 1
                      /\ \A k \in thumbs(images[n].filename) :
                           /\ t[k].left = 12 + ((n - 1) % 6) * 232
                           /\ t[k].top = 12 + ((n - 1) \div 6) * 179
                      /\ warned(images[n].filename) = {}
  /\ pc = "exited" =>
       \/ Len(images) = 0
       \/ console[Len(console)] = Say("error", 0) /\ i = Len(images)
  /\ pc = "done" => sheet # NoSheet /\ sheet.layers = compositeImages

\* The scenario of the specification: ten images, the fourth unreadable;
\* the sheet is written with nine thumbnails, the fifth image in cell 4.
C2_Witness ==
  /\ pc = "done"
  /\ Len(images) = 10
  /\ Unreadable(images[4].filename)
  /\ Len(Warnings) = 1
  /\ Len(ThumbLayers) = 9
  /\ ThumbLayers[4].input.source = images[5].filename
  /\ ThumbLayers[4].left = 12 + 4 * 232
  /\ sheet.layers = compositeImages

----------------------------------------------------------------------------
(* C3 *)

\* C3: while the listing holds no qualifying JPEG file, no prompt is ever
\* shown, createContactSheet is never entered, nothing is composited or
\* written, and once the list has been checked the process has exited with
\* code 1 right after the no-images error.
C3_NoImagesStopsTheRun ==
  Len(Qualifying) = 0 =>
    /\ pc \in {"getImages", "checkImages", "exited"}
    /\ \A k \in 1..Len(console) : console[k].msg \notin {"prompt", "creating", "created"}
    /\ compositeImages = <<>>
    /\ sheet = NoSheet
    /\ \A k \in 1..Len(dir) : dir[k].name.base > 0
    /\ pc = "exited" =>
         /\ exitCode = 1
         /\ console = <<Say("scanning", 0), Say("error: no images", 0)>>

\* A directory with entries, none of them a JPEG file, has ended the run.
C3_Witness ==
  /\ pc = "exited"
  /\ Len(dir) > 0
  /\ Len(Qualifying) = 0
  /\ exitCode = 1
  /\ console[Len(console)].msg = "error: no images"

----------------------------------------------------------------------------
(* C4 *)

\* A metadata field is present: it is not null and not the empty text.
Present(v) == v # <<"null">> /\ Len(v) > 0

AnyPresent ==
  \/ Present(metadata.serialNumber)
  \/ Present(metadata.laboratory)
  \/ Present(metadata.date)
  \/ Present(metadata.notes)

\* C4: in the complete composite list there is one footer overlay and one
\* separator rule when at least one of the four metadata fields is present,
\* and neither of them (thumbnails only) when all four are absent; the rule
\* lies above the footer overlay and below the grid, whose bottom edge is at
\* 12 + 1070; while the thumbnails are being made there is neither.
C4_FooterIffMetadata ==
  /\ Composed =>
       IF AnyPresent
         THEN /\ Len(FooterLayers) = 1
              /\ Len(LineLayers) = 1
              /\ LineLayers[1].top < FooterLayers[1].top
              /\ LineLayers[1].top = 1090
              /\ LineLayers[1].top >= 12 + 1070
              /\ \A layer \in Range(ThumbLayers) :
                   layer.top + layer.input.height <= 1090
         ELSE /\ Len(FooterLayers) = 0
              /\ Len(LineLayers) = 0
              /\ ThumbLayers = compositeImages
  /\ pc = "loop" => Len(FooterLayers) = 0 /\ Len(LineLayers) = 0

\* A finished run in which the notes are the only field given: the sheet
\* has the footer overlay and the rule.
C4_Witness ==
  /\ pc = "done"
  /\ ~Present(metadata.serialNumber)
  /\ ~Present(metadata.laboratory)
  /\ ~Present(metadata.date)
  /\ Present(metadata.notes)
  /\ Len(FooterLayers) = 1
  /\ Len(LineLayers) = 1
  /\ Len(ThumbLayers) = 1

----------------------------------------------------------------------------
(* C5 *)

\* The n-th typed answer has a character that is not white space.
Answered(n) == \E k \in 1..Len(stdin[n]) : stdin[n][k] \notin {" ", "\t"}

\* The fields answered, in the order of the prompts.
AnsweredFields == SelectSeq(<<1, 2, 3, 4>>, Answered)

\* Baseline of the line of field n: 60, plus 68 when a roll line comes
\* before it, plus 63 for every other line that comes before it.
Baseline(n) ==
  60 + (IF n > 1 /\ Answered(1) THEN 68 ELSE 0)
     + (IF n > 2 /\ Answered(2) THEN 63 ELSE 0)
     + (IF n > 3 /\ Answered(3) THEN 63 ELSE 0)

LabelOf(n) ==
  CASE n = 1 -> <<"R", "o", "l", "l", ":">>
    [] n = 2 -> <<"S", "c", "a", "n", "e", "d", " ", "b", "y", ":">>
    [] n = 3 -> <<"D", "a", "t", "e", ":">>
    [] n = 4 -> <<"N", "o", "t", "e", "s", ":">>

\* The text elements of the footer overlay (none when there is no overlay).
FooterParts == IF Len(FooterLayers) = 0 THEN <<>> ELSE FooterLayers[1].input.svg.parts

\* C5: in the complete composite list the footer has one line (a label and
\* a value on one baseline) for each prompt answered with more than white
\* space and none for the others; the lines come in the order roll,
\* scanned by, date, notes; the first is at baseline 60 and every later one
\* at the baseline its answered predecessors give (no gap for a skipped
\* field).
C5_FooterLinesCompact ==
  Composed =>
    LET f == AnsweredFields
        p == FooterParts
    IN /\ Len(p) = 2 * Len(f)
       /\ \A k \in 1..Len(f) :
            /\ p[2 * k - 1].text = LabelOf(f[k])
            /\ p[2 * k - 1].y = Baseline(f[k])
            /\ p[2 * k].y = Baseline(f[k])
            /\ p[2 * k - 1].x = 0
            /\ p[2 * k].x = 320
       /\ Len(f) > 0 => p[1].y = 60

\* The roll prompt was answered with white space only, the laboratory was
\* skipped and the date was given: the date line is the first line, at 60.
C5_Witness ==
  /\ pc = "done"
  /\ stdin[1] = <<" ", "\t">>
  /\ stdin[2] = <<>>
  /\ Answered(3)
  /\ Answered(4)
  /\ Len(FooterParts) = 4
  /\ FooterParts[1].text = <<"D", "a", "t", "e", ":">>
  /\ FooterParts[1].y = 60
  /\ FooterParts[3].y = 123

----------------------------------------------------------------------------
(* C6 *)

StartsWith(s, prefix) ==
  Len(s) >= Len(prefix) /\ SubSeq(s, 1, Len(prefix)) = prefix

\* The five entities and the character each stands for.
Entities ==
  { << <<"&", "a", "m", "p", ";">>, "&" >>,
    << <<"&", "l", "t", ";">>, "<" >>,
    << <<"&", "g", "t", ";">>, ">" >>,
    << <<"&", "q", "u", "o", "t", ";">>, "\"" >>,
    << <<"&", "a", "p", "o", "s", ";">>, "'" >> }

\* XML decoding of the five entities, one pass from left to right.
RECURSIVE Decode(_)
Decode(s) ==
  IF s = <<>> THEN <<>>
  ELSE IF \E e \in Entities : StartsWith(s, e[1])
    THEN LET e == CHOOSE x \in Entities : StartsWith(s, x[1])
         IN <<e[2]>> \o Decode(SubSeq(s, Len(e[1]) + 1, Len(s)))
    ELSE <<Head(s)>> \o Decode(Tail(s))

\* Number of occurrences of ch in s.
Count(s, ch) == Cardinality({k \in 1..Len(s) : s[k] = ch})

\* The metadata value of the n-th prompt.
MetaField(n) ==
  CASE n = 1 -> metadata.serialNumber
    [] n = 2 -> metadata.laboratory
    [] n = 3 -> metadata.date
    [] n = 4 -> metadata.notes

\* C6: the value text of every footer line is the escaped metadata value of
\* its field: it has no raw <, >, " or ', every & in it begins one of the
\* five entities, each special character of the value was replaced exactly
\* once (the text is longer by the length the entities add and by no more),
\* and decoding the entities gives the value back.
C6_EscapedFooterText ==
  LET p == FooterParts
  IN \A j \in 1..(Len(p) \div 2) :
       \E n \in 1..4 :
         /\ p[2 * j - 1].text = LabelOf(n)
         /\ LET v == p[2 * j].text
                orig == MetaField(n)
            IN /\ \A k \in 1..Len(v) : v[k] \notin {"<", ">", "\"", "'"}
               /\ \A k \in 1..Len(v) :
                    v[k] = "&" =>
                      \E e \in Entities : StartsWith(SubSeq(v, k, Len(v)), e[1])
               /\ Len(v) = Len(orig) + 4 * Count(orig, "&") + 3 * Count(orig, "<")
                             + 3 * Count(orig, ">") + 5 * Count(orig, "\"")
                             + 5 * Count(orig, "'")
               /\ Decode(v) = orig

\* The notes typed are the four characters of an entity, "&lt;": the
\* footer holds "&amp;lt;".
C6_Witness ==
  /\ pc = "done"
  /\ metadata.notes = <<"&", "l", "t", ";">>
  /\ Len(FooterParts) = 2
  /\ FooterParts[2].text = <<"&", "a", "m", "p", ";", "l", "t", ";">>

----------------------------------------------------------------------------
(* C7 *)

\* C7: every thumbnail was rotated exactly when its source image is higher
\* than wide (a square image is not rotated); the image that entered the
\* resize step is the source with its sides swapped when rotated and the
\* source itself otherwise, so it is at least as wide as high.
C7_RotateIffPortrait ==
  \A layer \in Range(ThumbLayers) :
    LET t == layer.input
        e == EntryNamed(t.source)
    IN /\ t.rotated <=> (e.height > e.width)
       /\ t.resized = IF e.height > e.width
                        THEN [width |-> e.height, height |-> e.width]
                        ELSE [width |-> e.width, height |-> e.height]
       /\ t.resized.width >= t.resized.height

\* A 2000 x 3000 portrait photo was rotated and resized as 3000 x 2000.
C7_Witness ==
  /\ Len(ThumbLayers) >= 1
  /\ EntryNamed(ThumbLayers[1].input.source).width = 2000
  /\ EntryNamed(ThumbLayers[1].input.source).height = 3000
  /\ ThumbLayers[1].input.rotated
  /\ ThumbLayers[1].input.resized = [width |-> 3000, height |-> 2000]

----------------------------------------------------------------------------
(* C8 *)

Abs(x) == IF x < 0 THEN -x ELSE x

\* x is num / den rounded to a whole pixel, or the one pixel a length that
\* rounds to zero is given.
Scaled(x, num, den) ==
  \/ 2 * Abs(x * den - num) <= den
  \/ x = 1 /\ 2 * num < den

\* C8: every thumbnail is exactly 228 x 175; its content, scaled from the
\* image that entered the resize step (the source, sides swapped when
\* rotated), is at most 228 wide and 175 high, fills the cell on at least
\* one axis, and the other axis is scaled by the same factor (to the
\* nearest pixel, and at least one pixel).
C8_ContainFit ==
  \A layer \in Range(ThumbLayers) :
    LET t == layer.input
        e == EntryNamed(t.source)
        r == t.resized
        c == t.content
    IN /\ t.width = 228 /\ t.height = 175
       /\ {r.width, r.height} = {e.width, e.height}
       /\ c.width >= 1 /\ c.width <= 228
       /\ c.height >= 1 /\ c.height <= 175
       /\ \/ c.width = 228 /\ Scaled(c.height, r.height * 228, r.width)
          \/ c.height = 175 /\ Scaled(c.width, r.width * 175, r.height)

\* A 1 x 10 source (ratio 1:10): rotated to 10 x 1, its content is 228 x 23.
C8_Witness ==
  /\ Len(ThumbLayers) >= 1
  /\ EntryNamed(ThumbLayers[1].input.source).width = 1
  /\ EntryNamed(ThumbLayers[1].input.source).height = 10
  /\ ThumbLayers[1].input.content = [width |-> 228, height |-> 23]
  /\ ThumbLayers[1].input.width = 228
  /\ ThumbLayers[1].input.height = 175

----------------------------------------------------------------------------
(* C9 *)

\* C9: the canvas side is 1417, the whole number nearest to 120 / 25.4 * 300
\* (= 360000 / 254); the grid ends inside it (12 + 1070 <= 1417); every
\* thumbnail rectangle in the composite list lies inside the canvas, and
\* the saved sheet is 1417 x 1417.
C9_ThumbnailsInsideCanvas ==
  /\ IMAGE_SIZE = 1417
  /\ 2 * Abs(IMAGE_SIZE * 254 - 360000) <= 254
  /\ GRID_HEIGHT = 1070
  /\ MARGIN + GRID_HEIGHT <= IMAGE_SIZE
  /\ \A layer \in Range(ThumbLayers) :
       /\ layer.left >= 0
       /\ layer.top >= 0
       /\ layer.left + layer.input.width <= 1417
       /\ layer.top + layer.input.height <= 1417
  /\ sheet # NoSheet => sheet.width = 1417 /\ sheet.height = 1417

\* A saved sheet with all 36 cells filled: the last thumbnail ends at
\* x = 1400 and y = 1082.
C9_Witness ==
  /\ pc = "done"
  /\ sheet.width = 1417
  /\ Len(ThumbLayers) = 36
  /\ ThumbLayers[36].left + ThumbLayers[36].input.width = 1400
  /\ ThumbLayers[36].top + ThumbLayers[36].input.height = 1082

----------------------------------------------------------------------------
(* C10 *)

\* C10: the footer overlay is composited at top 12 + 1070 + 20, its height
\* is the canvas side minus that top minus the margin, and so its bottom
\* edge is at the canvas side minus the margin, inside the canvas.
C10_FooterEndsAtBottomMargin ==
  \A k \in 1..Len(FooterLayers) :
    /\ FooterLayers[k].top = 12 + 1070 + 20
    /\ FooterLayers[k].input.height = IMAGE_SIZE - FooterLayers[k].top - 12
    /\ FooterLayers[k].top + FooterLayers[k].input.height = IMAGE_SIZE - 12
    /\ FooterLayers[k].top + FooterLayers[k].input.height <= IMAGE_SIZE

----------------------------------------------------------------------------
(* C11 *)

\* Two placed layers share no pixel, with at least gap pixels between them
\* on one axis.
Apart(a, b, gap) ==
  \/ a.left + a.input.width + gap <= b.left
  \/ b.left + b.input.width + gap <= a.left
  \/ a.top + a.input.height + gap <= b.top
  \/ b.top + b.input.height + gap <= a.top

\* C11: the rectangles of the composite list are pairwise disjoint: two
\* thumbnails are at least 4 pixels apart on one axis, and no thumbnail
\* shares a pixel with the separator rule or the footer overlay (nor the
\* rule with the overlay).
C11_LayersDisjoint ==
  \A j \in 1..Len(compositeImages) :
    \A k \in (j + 1)..Len(compositeImages) :
      Apart(compositeImages[j], compositeImages[k],
            IF /\ compositeImages[j].input.kind = "thumbnail"
               /\ compositeImages[k].input.kind = "thumbnail"
              THEN 4 ELSE 0)

\* A full sheet: 36 thumbnails, the footer overlay and the rule.
C11_Witness ==
  /\ pc = "done"
  /\ Len(ThumbLayers) = 36
  /\ Len(FooterLayers) = 1
  /\ Len(LineLayers) = 1
  /\ Len(compositeImages) = 38

----------------------------------------------------------------------------
(* C12 *)

\* Names of the files (not the subdirectories) of the listing that have a
\* JPEG extension, in listing order.
JpegFiles ==
  LET files == SelectSeq(InputDir,
                 LAMBDA e : ~e.isDir /\ e.name.ext \in {".jpg", ".jpeg", ".JPG", ".JPEG"})
  IN [k \in 1..Len(files) |-> files[k].name]

\* C12: once the directory has been scanned, the images handed to
\* createContactSheet are, in listing order, the first 36 of the files of
\* the directory with a JPEG extension: no entry with another extension and
\* no subdirectory, whatever its name, is among them.
C12_OnlyJpegFilesSelected ==
  pc # "getImages" =>
    /\ Len(images) = Min(Len(JpegFiles), 36)
    /\ \A k \in 1..Len(images) :
         /\ k <= Len(JpegFiles)
         /\ images[k].filename = JpegFiles[k]
         /\ ~EntryNamed(images[k].filename).isDir

----------------------------------------------------------------------------
(* C13 *)

\* Names of the source photos of the directory with a JPEG extension, in
\* listing order: the entries that are not sheets written by the program.
SourcePhotos ==
  LET photos == SelectSeq(dir,
                  LAMBDA e : /\ e.name.base > 0
                             /\ e.name.ext \in {".jpg", ".jpeg", ".JPG", ".JPEG"})
  IN [k \in 1..Len(photos) |-> photos[k].name]

\* C13: in every run on a directory, the first as well as the later ones,
\* no image handed to createContactSheet is a contact sheet written by an
\* earlier run, and once the directory is scanned the images are the first
\* 36 source photos, the same list in every run.
C13_SheetNeverSelected ==
  /\ \A k \in 1..Len(images) : images[k].filename.base > 0
  /\ pc # "getImages" =>
       /\ Len(images) = Min(Len(SourcePhotos), 36)
       /\ \A k \in 1..Len(images) : images[k].filename = SourcePhotos[k]

----------------------------------------------------------------------------
(* C14 *)

\* Position in the console of the first message msg, 0 when there is none.
FirstSaid(msg) ==
  IF \E k \in 1..Len(console) : console[k].msg = msg
    THEN CHOOSE k \in 1..Len(console) :
           /\ console[k].msg = msg
           /\ \A j \in 1..(k - 1) : console[j].msg # msg
    ELSE 0

\* C14: once the first prompt is shown, the warning that only the first 36
\* images will be processed has been printed, before that prompt, when the
\* directory holds more than 36 qualifying files; it is never printed when
\* the directory holds 36 or fewer.
C14_TruncationWarning ==
  /\ (Len(Qualifying) > 36 /\ FirstSaid("prompt") > 0) =>
       /\ FirstSaid("warning: only the first") > 0
       /\ FirstSaid("warning: only the first") < FirstSaid("prompt")
  /\ Len(Qualifying) <= 36 => FirstSaid("warning: only the first") = 0

====
